---- MODULE Spec2Model ----
(***************************************************************************)
(* State-machine model of the AccessibleMap component                      *)
(* (src/unnamed/part_000): viewport transform (zoom, pan, drag), marker    *)
(* store, announcement slot, export pipeline and the SvgBoundary error     *)
(* boundary.                                                               *)
(*                                                                         *)
(* React state is modelled by two layers.  The hook state (zoom, pan, ...) *)
(* is the value after every queued update has been applied in order; the   *)
(* record `view` is the snapshot of the last committed render, which is    *)
(* what a handler's closure reads.  Render commits the hook state into     *)
(* `view`.  React does not promise a render between two events, so Render  *)
(* is an action of its own.                                                *)
(*                                                                         *)
(* JavaScript numbers are modelled as exact rationals <<n, d>> (d > 0, in  *)
(* lowest terms); rounding error of IEEE doubles is not modelled.          *)
(***************************************************************************)
EXTENDS Integers, Sequences, FiniteSets, TLC

(***************************************************************************)
(* Bounds of the exploration.                                              *)
(***************************************************************************)
MaxEvents == 2
MaxViewEvents == 3
WarmPresses == 9
MaxMarkers == 2
MaxClock == 1
MaxExports == 1
MaxOverlap == 2
MaxExportEvents == 2
MaxClickEvents == 2
MaxStartPresses == 2
MaxClampEvents == 12
ConvergeWithin == 11
MaxScenarioEvents == 3

(***************************************************************************)
(* Exact rational arithmetic.                                              *)
(***************************************************************************)
Abs(n) == IF n < 0 THEN -n ELSE n

RECURSIVE GCD(_, _)
GCD(a, b) == IF b = 0 THEN a ELSE GCD(b, a % b)

Norm(n, d) ==
    LET g == GCD(Abs(n), Abs(d))
        s == IF d < 0 THEN -1 ELSE 1
    IN  <<(s * n) \div g, (s * d) \div g>>

RI(n) == <<n, 1>>

RMul(a, b) ==
    LET g1 == GCD(Abs(a[1]), b[2])
        g2 == GCD(Abs(b[1]), a[2])
    IN  Norm((a[1] \div g1) * (b[1] \div g2), (a[2] \div g2) * (b[2] \div g1))

RDiv(a, b) == RMul(a, IF b[1] < 0 THEN <<-b[2], -b[1]>> ELSE <<b[2], b[1]>>)

RAdd(a, b) ==
    LET g == GCD(a[2], b[2])
    IN  Norm(a[1] * (b[2] \div g) + b[1] * (a[2] \div g), (a[2] \div g) * b[2])

RSub(a, b) == RAdd(a, <<-b[1], b[2]>>)

RLe(a, b) == a[1] * b[2] <= b[1] * a[2]

RMin(a, b) == IF RLe(a, b) THEN a ELSE b

RMax(a, b) == IF RLe(a, b) THEN b ELSE a

\* Math.round of a non-negative number: the nearest integer, halves upwards.
Round(a) == (2 * a[1] + a[2]) \div (2 * a[2])

(***************************************************************************)
(* Program constants.                                                      *)
(***************************************************************************)
ZoomMin == <<1, 5>>
ZoomMax == <<5, 1>>
KeyZoomFactor == <<6, 5>>
WheelInFactor == <<11, 10>>
WheelOutFactor == RDiv(RI(1), WheelInFactor)
PanStep == 20
NominalW == 800
NominalH == 400
ContainerH == 300
DefaultW == 800
DefaultH == 500

Pt(x, y) == [x |-> RI(x), y |-> RI(y)]

(***************************************************************************)
(* Inputs.                                                                 *)
(***************************************************************************)
Points == {<<0, 0>>, <<30, 10>>}
Cursors == {<<10, 20>>, <<400, 200>>}
Signs == {-1, 1}
ArrowKeys == {"ArrowLeft", "ArrowRight", "ArrowUp", "ArrowDown"}
RegionNames == {"France"}
\* The container's getBoundingClientRect() width and height.
Viewports == {<<RI(800), RI(300)>>}
Refs == {"ref1"}
\* A layout width of 100% gives the container fractions of a pixel.
ExportViewports == Viewports \cup {<<<<1601, 2>>, RI(302)>>}
\* The host names every uploaded asset as it likes.
HostRefs == Refs \cup {"ref2"}
\* "component": <WorldSvg />, the element the call site passes (a function
\* component, no children); "tree": an svg host element with path children.
Scenes == {"component", "tree"}

VARIABLES
    zoom,            \* useState(1)
    pan,             \* useState({x: 0, y: 0})
    isPanning,       \* useState(false)
    panStart,        \* useRef(null): <<>> when null, else <<point>>
    ariaMessage,     \* useState("")
    selectedRegion,  \* useState(null): "" when null
    markers,         \* useState([])
    safeMode,        \* useState(true)
    scene,           \* what augment is applied to: the element given at the call site
    view,            \* values of the last committed render (handler closures)
    mounted,         \* component is mounted (containerRef.current # null)
    boundary,        \* the mounted SvgBoundary instance
    displayed,       \* what the map area shows
    now,             \* Date.now()
    addCalls,        \* number of addMarkerAtCenter calls made
    exports,         \* running addCurrentViewToDesign calls
    host,            \* calls made to the host (upload, addElement)
    drag,            \* mouse-down event that began the current drag
    ev,              \* the event handled by the last step
    fuel             \* number of input events still to be explored

vars == <<zoom, pan, isPanning, panStart, ariaMessage, selectedRegion, markers,
          safeMode, scene, view, mounted, boundary, displayed, now, addCalls,
          exports, host, drag, ev, fuel>>

Msg(kind, num, text) == [kind |-> kind, num |-> num, text |-> text]

NoMsg == Msg("", 0, "")

Event(type, pt, arg, announced, clamped) ==
    [type |-> type, pt |-> pt, arg |-> arg, announced |-> announced,
     clamped |-> clamped, calls |-> <<>>]

State ==
    [zoom |-> zoom, pan |-> pan, isPanning |-> isPanning,
     ariaMessage |-> ariaMessage, selectedRegion |-> selectedRegion,
     markers |-> markers]

NoBoundary == [mountedInstance |-> FALSE, hasError |-> FALSE]

NoDrag == [active |-> FALSE, origin |-> Pt(0, 0), panAtDragStart |-> Pt(0, 0)]

CanHandle == mounted /\ fuel > 0

(***************************************************************************)
(* Initial state: the component has been constructed and rendered once.    *)
(* safeMode is a constant of the mount; the source initialises it to true, *)
(* and the model also covers the mount with the flag off so that the       *)
(* vector branches of the source are exercised.                            *)
(***************************************************************************)
InitWith(z, msg, safe, sc, threw, n) ==
    /\ zoom = z
    /\ pan = Pt(0, 0)
    /\ isPanning = FALSE
    /\ panStart = <<>>
    /\ ariaMessage = msg
    /\ selectedRegion = ""
    /\ markers = <<>>
    /\ safeMode = safe
    /\ scene = sc
    /\ view = [zoom |-> z, pan |-> Pt(0, 0), isPanning |-> FALSE,
               ariaMessage |-> msg, selectedRegion |-> "", markers |-> <<>>]
    /\ mounted = TRUE
    /\ boundary = IF safe THEN NoBoundary
                  ELSE [mountedInstance |-> TRUE, hasError |-> threw]
    /\ displayed = IF safe THEN "img" ELSE IF threw THEN "pristine" ELSE "augmented"
    /\ now = 0
    /\ addCalls = 0
    /\ exports = <<>>
    /\ host = <<>>
    /\ drag = NoDrag
    /\ ev = Event("mount", <<0, 0>>, 0, FALSE, FALSE)
    /\ fuel = n

Mounts == {m \in [safe : BOOLEAN, scene : Scenes, threw : BOOLEAN] :
              m.safe => (~m.threw /\ m.scene = "component")}

Init == \E m \in Mounts : InitWith(RI(1), NoMsg, m.safe, m.scene, m.threw, MaxEvents)

\* The same initial state with the larger event budget of the narrower
\* specifications.
InitView == \E m \in Mounts :
                InitWith(RI(1), NoMsg, m.safe, m.scene, m.threw, MaxViewEvents)

(***************************************************************************)
(* Keyboard zoom: handleZoomIn / handleZoomOut.  The functional updater    *)
(* works on the latest zoom; setAriaMessage is called inside the updater,  *)
(* so the announcement is written when the new zoom is computed.           *)
(***************************************************************************)
ZoomInValueStopsShort(z) ==
    IF RLe(RMul(z, KeyZoomFactor), ZoomMax) THEN RMul(z, KeyZoomFactor) ELSE z

ZoomInValue(z) == RMin(ZoomMax, RMul(z, KeyZoomFactor))

ZoomOutValue(z) == RMax(ZoomMin, RDiv(z, KeyZoomFactor))

RECURSIVE ZoomInTimes(_, _)
ZoomInTimes(z, n) == IF n = 0 THEN z ELSE ZoomInTimes(ZoomInValue(z), n - 1)

RECURSIVE ZoomOutTimes(_, _)
ZoomOutTimes(z, n) == IF n = 0 THEN z ELSE ZoomOutTimes(ZoomOutValue(z), n - 1)

handleZoomIn ==
    /\ CanHandle
    /\ zoom' = ZoomInValue(zoom)
    /\ ariaMessage' = Msg("Zoom avant", 0, "")
    /\ ev' = Event("zoomIn", <<0, 0>>, 0, TRUE,
                   zoom' # RMul(zoom, KeyZoomFactor))
    /\ fuel' = fuel - 1
    /\ UNCHANGED <<pan, isPanning, panStart, selectedRegion, markers,
                   safeMode, scene, view, mounted, boundary, displayed, now,
                   addCalls, exports, host, drag>>

handleZoomOut ==
    /\ CanHandle
    /\ zoom' = ZoomOutValue(zoom)
    /\ ariaMessage' = Msg("Zoom arriere", 0, "")
    /\ ev' = Event("zoomOut", <<0, 0>>, 0, TRUE,
                   zoom' # RDiv(zoom, KeyZoomFactor))
    /\ fuel' = fuel - 1
    /\ UNCHANGED <<pan, isPanning, panStart, selectedRegion, markers,
                   safeMode, scene, view, mounted, boundary, displayed, now,
                   addCalls, exports, host, drag>>

(***************************************************************************)
(* Keyboard pan: the arrow branches of onKeyDownContainer.                 *)
(***************************************************************************)
ArrowPan(p, key) ==
    CASE key = "ArrowLeft"  -> [x |-> RAdd(p.x, RI(PanStep)), y |-> p.y]
      [] key = "ArrowRight" -> [x |-> RSub(p.x, RI(PanStep)), y |-> p.y]
      [] key = "ArrowUp"    -> [x |-> p.x, y |-> RAdd(p.y, RI(PanStep))]
      [] key = "ArrowDown"  -> [x |-> p.x, y |-> RSub(p.y, RI(PanStep))]

onKeyDownArrow(key) ==
    /\ CanHandle
    /\ pan' = ArrowPan(pan, key)
    /\ ev' = Event(key, <<0, 0>>, 0, FALSE, FALSE)
    /\ fuel' = fuel - 1
    /\ UNCHANGED <<zoom, isPanning, panStart, ariaMessage, selectedRegion,
                   markers, safeMode, scene, view, mounted, boundary,
                   displayed, now, addCalls, exports, host, drag>>

(***************************************************************************)
(* Mouse panning.                                                          *)
(***************************************************************************)
PanStartValueSum(pt, p) ==
    [x |-> RAdd(RI(pt[1]), p.x), y |-> RAdd(RI(pt[2]), p.y)]

PanStartValue(pt, p) == [x |-> RSub(RI(pt[1]), p.x), y |-> RSub(RI(pt[2]), p.y)]

onMouseDown(pt) ==
    /\ CanHandle
    /\ isPanning' = TRUE
    /\ panStart' = <<PanStartValue(pt, view.pan)>>
    /\ drag' = [active |-> TRUE, origin |-> Pt(pt[1], pt[2]),
                panAtDragStart |-> view.pan]
    /\ ev' = Event("mousedown", pt, 0, FALSE, FALSE)
    /\ fuel' = fuel - 1
    /\ UNCHANGED <<zoom, pan, ariaMessage, selectedRegion, markers, safeMode,
                   scene, view, mounted, boundary, displayed, now, addCalls,
                   exports, host>>

MouseMoveGuard == view.isPanning /\ panStart # <<>>

MouseMovePan(pt, start) ==
    [x |-> RSub(RI(pt[1]), start.x), y |-> RSub(RI(pt[2]), start.y)]

onMouseMove(pt) ==
    /\ CanHandle
    /\ pan' = IF MouseMoveGuard THEN MouseMovePan(pt, panStart[1]) ELSE pan
    /\ ev' = Event("mousemove", pt, IF MouseMoveGuard THEN 1 ELSE 0, FALSE, FALSE)
    /\ fuel' = fuel - 1
    /\ UNCHANGED <<zoom, isPanning, panStart, ariaMessage, selectedRegion,
                   markers, safeMode, scene, view, mounted, boundary,
                   displayed, now, addCalls, exports, host, drag>>

KeepDragRef == panStart

EndDragRef == <<>>

onMouseUp ==
    /\ CanHandle
    /\ isPanning' = FALSE
    /\ panStart' = EndDragRef
    /\ drag' = NoDrag
    /\ ev' = Event("mouseup", <<0, 0>>, 0, FALSE, FALSE)
    /\ fuel' = fuel - 1
    /\ UNCHANGED <<zoom, pan, ariaMessage, selectedRegion, markers, safeMode,
                   scene, view, mounted, boundary, displayed, now, addCalls,
                   exports, host>>

onMouseLeave ==
    /\ CanHandle
    /\ isPanning' = FALSE
    /\ panStart' = EndDragRef
    /\ drag' = NoDrag
    /\ ev' = Event("mouseleave", <<0, 0>>, 0, FALSE, FALSE)
    /\ fuel' = fuel - 1
    /\ UNCHANGED <<zoom, pan, ariaMessage, selectedRegion, markers, safeMode,
                   scene, view, mounted, boundary, displayed, now, addCalls,
                   exports, host>>

(***************************************************************************)
(* Wheel zoom around the cursor: zoom is read from the render closure, pan *)
(* is updated through a functional updater.                                *)
(***************************************************************************)
ScaleFactor(sign) == IF sign < 0 THEN WheelInFactor ELSE WheelOutFactor

WheelZoomUnclamped(z, sign) == RMul(z, ScaleFactor(sign))

WheelZoom(z, sign) == RMin(ZoomMax, RMax(ZoomMin, RMul(z, ScaleFactor(sign))))

WheelPanScaled(c, k, p) == [x |-> RMul(k, p.x), y |-> RMul(k, p.y)]

WheelPan(c, k, p) ==
    [x |-> RSub(RI(c[1]), RMul(k, RSub(RI(c[1]), p.x))),
     y |-> RSub(RI(c[2]), RMul(k, RSub(RI(c[2]), p.y)))]

WheelAnnouncementNone(sign) == [written |-> FALSE, msg |-> NoMsg]

\* The announcement a wheel event writes (setAriaMessage at the end of onWheel).
WheelAnnouncement(sign) ==
    [written |-> TRUE,
     msg |-> IF sign < 0 THEN Msg("Zoom avant", 0, "") ELSE Msg("Zoom arriere", 0, "")]

onWheel(c, sign) ==
    /\ CanHandle
    /\ LET newZoom == WheelZoom(view.zoom, sign)
           k == RDiv(newZoom, view.zoom)
       IN  /\ pan' = WheelPan(c, k, pan)
           /\ zoom' = newZoom
    /\ LET a == WheelAnnouncement(sign)
       IN  /\ ariaMessage' = IF a.written THEN a.msg ELSE ariaMessage
           /\ ev' = Event("wheel", c, sign, a.written,
                          zoom' # RMul(view.zoom, ScaleFactor(sign)))
    /\ fuel' = fuel - 1
    /\ UNCHANGED <<isPanning, panStart, selectedRegion, markers, safeMode,
                   scene, view, mounted, boundary, displayed, now, addCalls,
                   exports, host, drag>>

(***************************************************************************)
(* The scene that augment is given, as a React element tree.  An element   *)
(* has a type (a tag name for a host element, the function for a           *)
(* component element), the attributes augment reads or writes, and its     *)
(* children.  An attribute is <<>> when absent and <<value>> when present. *)
(***************************************************************************)
Absent == <<>>

Attr(v) == <<v>>

Call(fn, arg, num) == [fn |-> fn, arg |-> arg, num |-> num]

El(type, id, dataName, onClick, children) ==
    [type |-> type, component |-> FALSE, id |-> id, dataName |-> dataName,
     transform |-> Absent, marker |-> Absent, onClick |-> onClick,
     text |-> "", children |-> children]

\* A text child: not a React element.
Text(t) == [El("#text", Absent, Absent, <<>>, <<>>) EXCEPT !.text = t]

\* <WorldSvg />: a component element without props.
WorldSvgElement ==
    [El("WorldSvg", Absent, Absent, <<>>, <<>>) EXCEPT !.component = TRUE]

\* A handler the scene's author put on a path before augment saw it.
AuthorHandler == <<Call("onClickPrev", "", 0)>>

DataNameValues == <<Absent, Attr(""), Attr("France")>>

IdValues == <<Absent, Attr(""), Attr("FR")>>

\* One path for every combination of data-name, id and author handler.
AttributePaths ==
    [k \in 1..18 |->
        El("path", IdValues[(((k - 1) \div 3) % 3) + 1],
           DataNameValues[((k - 1) % 3) + 1],
           IF k > 9 THEN AuthorHandler ELSE <<>>, <<>>)]

SceneTree(sc) ==
    CASE sc = "component" -> WorldSvgElement
      [] sc = "tree" ->
            El("svg", Absent, Absent, <<>>,
               <<El("g", Absent, Absent, <<>>,
                    <<El("path", Attr("FR"), Attr("France"), <<>>, <<>>)>>)>>)
      [] sc = "attributes" ->
            El("svg", Absent, Absent, <<>>,
               <<El("g", Attr("countries"), Absent, <<>>, AttributePaths)>>)
      [] sc = "nested" ->
            El("svg", Absent, Absent, <<>>,
               <<El("path", Attr("FR"), Absent, AuthorHandler, <<Text("France")>>),
                 El("g", Absent, Absent, <<>>,
                    <<El("svg", Attr("inset"), Absent, <<>>,
                         <<El("path", Absent, Attr("Corse"), <<>>, <<>>)>>)>>)>>)
      [] sc = "group" ->
            El("g", Absent, Absent, <<>>,
               <<El("path", Absent, Absent, AuthorHandler, <<>>)>>)

AugmentScenes == {"component", "tree", "attributes", "nested", "group"}

(***************************************************************************)
(* augment.                                                                *)
(***************************************************************************)
\* JavaScript truthiness of an attribute: absent (undefined) and the empty
\* string are falsy.
Truthy(a) == a # Absent /\ a[1] # ""

FallbackName == "Region"

\* name = dataName || pathAttrs.id || fallback.
ResolveNameIdFirst(dataName, id) ==
    IF Truthy(id) THEN id[1]
    ELSE IF Truthy(dataName) THEN dataName[1] ELSE FallbackName

ResolveName(dataName, id) ==
    IF Truthy(dataName) THEN dataName[1]
    ELSE IF Truthy(id) THEN id[1] ELSE FallbackName

\* The click handler augment puts on a path, as the calls it makes in order.
PathOnClickPrevFirst(name, onClickPrev) ==
    onClickPrev \o <<Call("stopPropagation", "", 0), Call("handleSelect", name, 0)>>

PathOnClick(name, onClickPrev) ==
    <<Call("stopPropagation", "", 0), Call("handleSelect", name, 0)>> \o onClickPrev

Title(name) == El("title", Absent, Absent, <<>>, <<Text(name)>>)

\* One circle of the marker layer.
MarkerNode(m) ==
    [El("circle", Absent, Absent,
        <<Call("stopPropagation", "", 0), Call("setAriaMessage", "Point", m.name)>>,
        <<El("title", Absent, Absent, <<>>, <<>>)>>)
     EXCEPT !.marker = Attr(m)]

\* <g id="viewport" transform=...>{children}<g id="markers">...</g></g>
ViewportGroup(children, v) ==
    [El("g", Attr("viewport"), Absent, <<>>,
        children \o <<El("g", Attr("markers"), Absent, <<>>,
                         [i \in 1..Len(v.markers) |-> MarkerNode(v.markers[i])])>>)
     EXCEPT !.transform = Attr([pan |-> v.pan, zoom |-> v.zoom])]

RECURSIVE augment(_, _)
augment(el, v) ==
    IF el.type = "#text" THEN el
    ELSE LET tagName == IF el.component THEN "" ELSE el.type
             recursed == [i \in 1..Len(el.children) |-> augment(el.children[i], v)]
             name == ResolveName(el.dataName, el.id)
         IN  IF tagName = "svg"
             THEN [el EXCEPT !.children = <<ViewportGroup(recursed, v)>>]
             ELSE IF tagName = "path"
             THEN [el EXCEPT !.onClick = PathOnClick(name, el.onClick),
                             !.children = <<Title(name)>> \o recursed]
             ELSE [el EXCEPT !.children = recursed]

\* augmentedWorld as of the last render.
AugmentedWorld == augment(SceneTree(scene), view)

\* The elements of a tree in document order.
RECURSIVE Elements(_)
RECURSIVE ElementsOfAll(_)
Elements(el) == <<el>> \o ElementsOfAll(el.children)

ElementsOfAll(els) ==
    IF els = <<>> THEN <<>> ELSE Elements(Head(els)) \o ElementsOfAll(Tail(els))

IsPath(el) == ~el.component /\ el.type = "path"

IsCircle(el) == ~el.component /\ el.type = "circle"

\* What the boundary shows when it shows the augmented tree.
AugmentedLive == mounted /\ ~safeMode /\ displayed = "augmented"

RenderedPaths == SelectSeq(Elements(AugmentedWorld), IsPath)

RenderedCircles == SelectSeq(Elements(AugmentedWorld), IsCircle)

PathHandlersLive == AugmentedLive /\ RenderedPaths # <<>>

(***************************************************************************)
(* Click handlers of the augmented tree.  A handler runs its calls in      *)
(* order; handleSelect and setAriaMessage write hook state, the author's   *)
(* handler and stopPropagation do not.                                     *)
(***************************************************************************)
handleSelect(name, st) ==
    [st EXCEPT !.selectedRegion = name,
               !.ariaMessage = Msg("selectionne", 0, name)]

ApplyCall(c, st) ==
    LET after == IF c.fn = "handleSelect" THEN handleSelect(c.arg, st)
                 ELSE IF c.fn = "setAriaMessage"
                 THEN [st EXCEPT !.ariaMessage = Msg(c.arg, c.num, "")]
                 ELSE st
    IN  [after EXCEPT !.calls = Append(st.calls, c)]

RECURSIVE RunCalls(_, _)
RunCalls(cs, st) ==
    IF cs = <<>> THEN st ELSE RunCalls(Tail(cs), ApplyCall(Head(cs), st))

BeforeClick ==
    [selectedRegion |-> selectedRegion, ariaMessage |-> ariaMessage, calls |-> <<>>]

onPathClick(k) ==
    /\ CanHandle
    /\ PathHandlersLive
    /\ k \in 1..Len(RenderedPaths)
    /\ LET after == RunCalls(RenderedPaths[k].onClick, BeforeClick)
       IN  /\ selectedRegion' = after.selectedRegion
           /\ ariaMessage' = after.ariaMessage
           /\ ev' = [Event("select", <<0, 0>>, k, TRUE, FALSE)
                        EXCEPT !.calls = after.calls]
    /\ fuel' = fuel - 1
    /\ UNCHANGED <<zoom, pan, isPanning, panStart, markers, safeMode, scene,
                   view, mounted, boundary, displayed, now, addCalls, exports,
                   host, drag>>

(***************************************************************************)
(* Click on a marker circle of the rendered marker layer.                  *)
(***************************************************************************)
onMarkerClick(i) ==
    /\ CanHandle
    /\ AugmentedLive
    /\ i \in 1..Len(RenderedCircles)
    /\ LET after == RunCalls(RenderedCircles[i].onClick, BeforeClick)
       IN  /\ ariaMessage' = after.ariaMessage
           /\ ev' = [Event("markerClick", <<0, 0>>, i, TRUE, FALSE)
                        EXCEPT !.calls = after.calls]
    /\ fuel' = fuel - 1
    /\ UNCHANGED <<zoom, pan, isPanning, panStart, selectedRegion, markers,
                   safeMode, scene, view, mounted, boundary, displayed, now,
                   addCalls, exports, host, drag>>

(***************************************************************************)
(* addMarkerAtCenter.  The id is derived from the clock, the name from the *)
(* marker count of the render closure; the list itself is appended through *)
(* a functional updater.  Both branches place the marker at the centre of  *)
(* the nominal 800x400 view box; the vector branch finds the svg element   *)
(* it queries whenever the component is mounted.                           *)
(***************************************************************************)
MarkerId(t) == t

MarkerName(ms) == Len(ms) + 1

NewMarker(t, ms) ==
    [id |-> MarkerId(t), x |-> NominalW \div 2, y |-> NominalH \div 2,
     name |-> MarkerName(ms)]

addMarkerAtCenter ==
    /\ CanHandle
    /\ Len(markers) < MaxMarkers
    /\ markers' = Append(markers, NewMarker(now, view.markers))
    /\ ariaMessage' = Msg("ajoute", MarkerName(view.markers), "")
    /\ ev' = Event("addMarker", <<0, 0>>, 0, TRUE, FALSE)
    /\ addCalls' = addCalls + 1
    /\ fuel' = fuel - 1
    /\ UNCHANGED <<zoom, pan, isPanning, panStart, selectedRegion, safeMode,
                   scene, view, mounted, boundary, displayed, now, exports,
                   host, drag>>

\* The clock advances between events.
Tick ==
    /\ now < MaxClock
    /\ now' = now + 1
    /\ UNCHANGED <<addCalls, zoom, pan, isPanning, panStart, ariaMessage,
                   selectedRegion, markers, safeMode, scene, view, mounted,
                   boundary, displayed, exports, host, drag, ev, fuel>>

(***************************************************************************)
(* addCurrentViewToDesign.  One record per call; pc is the await the call  *)
(* is suspended at ("decoding", "uploading", "inserting") or how it ended  *)
(* ("done", "rejected").  The call reads pan and zoom from the closure of  *)
(* the render it was started from.  In the vector path the svg element is  *)
(* present whenever the component is mounted, so the early return of line  *)
(* 183 is not taken and the object URL is created at the start.            *)
(***************************************************************************)
NoCanvas == [w |-> 0, h |-> 0, tx |-> RI(0), ty |-> RI(0), scale |-> RI(0)]

ExportStart(safe, vp, v) ==
    [pc |-> "decoding", safe |-> safe, w |-> vp[1], h |-> vp[2],
     pan |-> v.pan, zoom |-> v.zoom,
     url |-> IF safe THEN "none" ELSE "live",
     canvas |-> NoCanvas, ref |-> "", unmountedAt |-> "", announced |-> FALSE,
     err |-> ""]

addCurrentViewToDesign(vp) ==
    /\ CanHandle
    /\ exports' = Append(exports, ExportStart(safeMode, vp, view))
    /\ ev' = Event("export", <<0, 0>>, Len(exports) + 1, FALSE, FALSE)
    /\ fuel' = fuel - 1
    /\ UNCHANGED <<zoom, pan, isPanning, panStart, ariaMessage,
                   selectedRegion, markers, safeMode, scene, view, mounted,
                   boundary, displayed, now, addCalls, host, drag>>

\* canvas.width = Math.round(width), canvas.height = Math.round(height).
CanvasSizeNominal(side) == NominalW

CanvasSize(side) == Round(side)

\* The canvas drawn by img.onload.
CanvasOfCurrentState(e) ==
    [w |-> CanvasSize(e.w), h |-> CanvasSize(e.h),
     tx |-> pan.x, ty |-> pan.y, scale |-> zoom]

Canvas(e) ==
    IF e.safe
    THEN [w |-> CanvasSize(e.w), h |-> CanvasSize(e.h),
          tx |-> e.pan.x, ty |-> e.pan.y, scale |-> e.zoom]
    ELSE [w |-> CanvasSize(e.w), h |-> CanvasSize(e.h),
          tx |-> RI(0), ty |-> RI(0), scale |-> RI(1)]

\* The object URL after img.onload has run (try / finally).
UrlAfterLoad(e) == IF e.safe THEN e.url ELSE "revoked"

\* The object URL after img.onerror has run (img.onerror = reject).
UrlAfterError(e) == e.url

\* What img.onload threw, if anything: without a context the handler throws
\* "Canvas not supported" before it draws; toDataURL may throw after it.
LoadError(ctxOk, encodeOk) ==
    IF ~ctxOk THEN "noContext" ELSE IF ~encodeOk THEN "encode" ELSE ""

\* Where the export stands after img.onload: the catch block rejects the
\* promise the function awaits, otherwise the function goes on to upload.
AfterLoadPcNoContextCheck(ctxOk, encodeOk) ==
    IF encodeOk THEN "uploading" ELSE "rejected"

AfterLoadPc(ctxOk, encodeOk) ==
    IF LoadError(ctxOk, encodeOk) = "" THEN "uploading" ELSE "rejected"

\* img.onload: ctxOk is whether getContext("2d") gave a context, encodeOk
\* whether toDataURL returned.  On success the awaiting function goes on and
\* calls upload.
imgOnLoad(i, ctxOk, encodeOk) ==
    /\ i \in 1..Len(exports)
    /\ exports[i].pc = "decoding"
    /\ LET e == exports[i]
           ok == AfterLoadPc(ctxOk, encodeOk) = "uploading"
       IN  /\ exports' = [exports EXCEPT ![i] =
                  [e EXCEPT !.pc = AfterLoadPc(ctxOk, encodeOk),
                            !.canvas = IF ctxOk THEN Canvas(e) ELSE NoCanvas,
                            !.url = UrlAfterLoad(e),
                            !.err = LoadError(ctxOk, encodeOk)]]
           /\ host' = IF ok THEN Append(host, [call |-> "upload", export |-> i,
                                                ref |-> "", mounted |-> mounted])
                            ELSE host
    /\ ev' = Event("imgLoad", <<0, 0>>, i, FALSE, FALSE)
    /\ UNCHANGED <<zoom, pan, isPanning, panStart, ariaMessage,
                   selectedRegion, markers, safeMode, scene, view, mounted,
                   boundary, displayed, now, addCalls, drag, fuel>>

imgOnError(i) ==
    /\ i \in 1..Len(exports)
    /\ exports[i].pc = "decoding"
    /\ exports' = [exports EXCEPT ![i] =
           [exports[i] EXCEPT !.pc = "rejected", !.url = UrlAfterError(exports[i]),
                              !.err = "decode"]]
    /\ ev' = Event("imgError", <<0, 0>>, i, FALSE, FALSE)
    /\ UNCHANGED <<zoom, pan, isPanning, panStart, ariaMessage,
                   selectedRegion, markers, safeMode, scene, view, mounted,
                   boundary, displayed, now, addCalls, host, drag, fuel>>

\* upload resolved with ref: the function goes on and calls addElement.
InsertCallOfFirst(i, ref, m) ==
    <<[call |-> "insert", export |-> 1, ref |-> ref, mounted |-> m]>>

InsertCallTwice(i, ref, m) ==
    <<[call |-> "insert", export |-> i, ref |-> ref, mounted |-> m],
      [call |-> "insert", export |-> i, ref |-> ref, mounted |-> m]>>

InsertCall(i, ref, m) == <<[call |-> "insert", export |-> i, ref |-> ref, mounted |-> m]>>

uploadResolved(i, ref) ==
    /\ i \in 1..Len(exports)
    /\ exports[i].pc = "uploading"
    /\ exports' = [exports EXCEPT ![i] =
           [exports[i] EXCEPT !.pc = "inserting", !.ref = ref]]
    /\ host' = host \o InsertCall(i, ref, mounted)
    /\ ev' = Event("uploadResolved", <<0, 0>>, i, FALSE, FALSE)
    /\ UNCHANGED <<zoom, pan, isPanning, panStart, ariaMessage,
                   selectedRegion, markers, safeMode, scene, view, mounted,
                   boundary, displayed, now, addCalls, drag, fuel>>

uploadRejected(i) ==
    /\ i \in 1..Len(exports)
    /\ exports[i].pc = "uploading"
    /\ exports' = [exports EXCEPT ![i] =
           [exports[i] EXCEPT !.pc = "rejected", !.err = "upload"]]
    /\ ev' = Event("uploadRejected", <<0, 0>>, i, FALSE, FALSE)
    /\ UNCHANGED <<zoom, pan, isPanning, panStart, ariaMessage,
                   selectedRegion, markers, safeMode, scene, view, mounted,
                   boundary, displayed, now, addCalls, host, drag, fuel>>

\* addElement resolved: setAriaMessage is called; React drops a state update
\* of a component that is no longer mounted.
addElementResolved(i) ==
    /\ i \in 1..Len(exports)
    /\ exports[i].pc = "inserting"
    /\ exports' = [exports EXCEPT ![i] =
           [exports[i] EXCEPT !.pc = "done", !.announced = TRUE]]
    /\ ariaMessage' = IF mounted THEN Msg("Carte ajoutee au design", 0, "")
                                 ELSE ariaMessage
    /\ ev' = Event("addElementResolved", <<0, 0>>, i, TRUE, FALSE)
    /\ UNCHANGED <<zoom, pan, isPanning, panStart, selectedRegion, markers,
                   safeMode, scene, view, mounted, boundary, displayed, now,
                   addCalls, host, drag, fuel>>

addElementRejected(i) ==
    /\ i \in 1..Len(exports)
    /\ exports[i].pc = "inserting"
    /\ exports' = [exports EXCEPT ![i] =
           [exports[i] EXCEPT !.pc = "rejected", !.err = "insert"]]
    /\ ev' = Event("addElementRejected", <<0, 0>>, i, FALSE, FALSE)
    /\ UNCHANGED <<zoom, pan, isPanning, panStart, ariaMessage,
                   selectedRegion, markers, safeMode, scene, view, mounted,
                   boundary, displayed, now, addCalls, host, drag, fuel>>

(***************************************************************************)
(* The host tears the component down.  Running exports are not cancelled;  *)
(* each records the await it was suspended at.                             *)
(***************************************************************************)
InFlight(e) == e.pc \in {"decoding", "uploading", "inserting"}

Unmount ==
    /\ mounted
    /\ mounted' = FALSE
    /\ boundary' = NoBoundary
    /\ displayed' = "none"
    /\ exports' = [i \in 1..Len(exports) |->
                      IF InFlight(exports[i])
                      THEN [exports[i] EXCEPT !.unmountedAt = exports[i].pc]
                      ELSE exports[i]]
    /\ ev' = Event("unmount", <<0, 0>>, 0, FALSE, FALSE)
    /\ UNCHANGED <<zoom, pan, isPanning, panStart, ariaMessage,
                   selectedRegion, markers, safeMode, scene, view, now,
                   addCalls, host, drag, fuel>>

(***************************************************************************)
(* A render of AccessibleMap commits the hook state.  SvgBoundary is a     *)
(* class created inside the component body, so each render of the          *)
(* component yields a new class: React unmounts the previous boundary      *)
(* instance and mounts a fresh one (hasError = false), which renders the   *)
(* augmented tree; that render may throw and is then caught.               *)
(***************************************************************************)
\* Whether a render of the component renders the augmented tree: the fresh
\* boundary instance always renders its children first.
RendersAugmented(safe) == ~safe

BoundaryAfterRender(safe, threw) ==
    IF safe THEN NoBoundary ELSE [mountedInstance |-> TRUE, hasError |-> threw]

Render(threw) ==
    /\ mounted
    /\ view # State
    /\ safeMode => ~threw
    /\ view' = State
    /\ boundary' = BoundaryAfterRender(safeMode, threw)
    /\ displayed' = IF safeMode THEN "img"
                    ELSE IF boundary'.hasError THEN "pristine" ELSE "augmented"
    /\ ev' = Event("render", <<0, 0>>, IF RendersAugmented(safeMode) THEN 1 ELSE 0,
                   FALSE, FALSE)
    /\ UNCHANGED <<zoom, pan, isPanning, panStart, ariaMessage,
                   selectedRegion, markers, safeMode, scene, mounted, now,
                   addCalls, exports, host, drag, fuel>>

Next ==
    \/ handleZoomIn
    \/ handleZoomOut
    \/ \E key \in ArrowKeys : onKeyDownArrow(key)
    \/ \E pt \in Points : onMouseDown(pt)
    \/ \E pt \in Points : onMouseMove(pt)
    \/ onMouseUp
    \/ onMouseLeave
    \/ \E c \in Cursors, sign \in Signs : onWheel(c, sign)
    \/ \E k \in DOMAIN AttributePaths : onPathClick(k)
    \/ \E i \in 1..MaxMarkers : onMarkerClick(i)
    \/ addMarkerAtCenter
    \/ Tick
    \/ \E vp \in Viewports : Len(exports) < MaxExports /\ addCurrentViewToDesign(vp)
    \/ \E i \in 1..MaxExports, ctxOk \in BOOLEAN, encodeOk \in BOOLEAN :
           imgOnLoad(i, ctxOk, encodeOk)
    \/ \E i \in 1..MaxExports : imgOnError(i)
    \/ \E i \in 1..MaxExports, ref \in Refs : uploadResolved(i, ref)
    \/ \E i \in 1..MaxExports : uploadRejected(i)
    \/ \E i \in 1..MaxExports : addElementResolved(i)
    \/ \E i \in 1..MaxExports : addElementRejected(i)
    \/ Unmount
    \/ \E threw \in BOOLEAN : Render(threw)

Spec == Init /\ [][Next]_vars

(***************************************************************************)
(* The component after the user has pressed "+" or "-" WarmPresses times   *)
(* and the result has been rendered: the states from which one more zoom   *)
(* request meets the clamp.  Each is a state Spec reaches from Init by     *)
(* that many handleZoomIn (handleZoomOut) steps and a Render.              *)
(***************************************************************************)
InitWarm ==
    \/ Init
    \/ \E m \in Mounts :
           \/ InitWith(ZoomInTimes(RI(1), WarmPresses), Msg("Zoom avant", 0, ""),
                       m.safe, m.scene, m.threw, MaxEvents)
           \/ InitWith(ZoomOutTimes(RI(1), WarmPresses), Msg("Zoom arriere", 0, ""),
                       m.safe, m.scene, m.threw, MaxEvents)

SpecWarm == InitWarm /\ [][Next]_vars

(***************************************************************************)
(* The viewport alone: keyboard, mouse and wheel handlers and the render.  *)
(***************************************************************************)
NextView ==
    \/ handleZoomIn
    \/ handleZoomOut
    \/ \E key \in ArrowKeys : onKeyDownArrow(key)
    \/ \E pt \in Points : onMouseDown(pt)
    \/ \E pt \in Points : onMouseMove(pt)
    \/ onMouseUp
    \/ onMouseLeave
    \/ \E c \in Cursors, sign \in Signs : onWheel(c, sign)
    \/ \E threw \in BOOLEAN : Render(threw)

SpecView == InitView /\ [][NextView]_vars

(***************************************************************************)
(* The user holds one of the zoom keys: from a rendered state whose last   *)
(* event was a zoom request, the same request is repeated.  The starting   *)
(* states are those after up to MaxStartPresses presses of the opposite    *)
(* key and one press of the held key, and the two states at the clamps.    *)
(* The held key is the one the announcement names, since no other handler  *)
(* runs.                                                                   *)
(***************************************************************************)
InitClamp ==
    \E m \in Mounts :
        \/ \E k \in 0..MaxStartPresses :
               \/ InitWith(ZoomInValue(ZoomOutTimes(RI(1), k)), Msg("Zoom avant", 0, ""),
                           m.safe, m.scene, m.threw, MaxClampEvents)
               \/ InitWith(ZoomOutValue(ZoomInTimes(RI(1), k)), Msg("Zoom arriere", 0, ""),
                           m.safe, m.scene, m.threw, MaxClampEvents)
        \/ InitWith(ZoomInTimes(RI(1), WarmPresses), Msg("Zoom avant", 0, ""),
                    m.safe, m.scene, m.threw, MaxClampEvents)
        \/ InitWith(ZoomOutTimes(RI(1), WarmPresses), Msg("Zoom arriere", 0, ""),
                    m.safe, m.scene, m.threw, MaxClampEvents)

RepeatZoomIn == ariaMessage.kind = "Zoom avant" /\ handleZoomIn

RepeatZoomOut == ariaMessage.kind = "Zoom arriere" /\ handleZoomOut

NextClamp ==
    \/ RepeatZoomIn
    \/ RepeatZoomOut
    \/ \E threw \in BOOLEAN : Render(threw)

SpecClamp == InitClamp /\ [][NextClamp]_vars

(***************************************************************************)
(* Wheel events at one cursor position, each handled from the render that  *)
(* committed the previous one.                                             *)
(***************************************************************************)
ScenarioCursor == <<400, 200>>

InitAnchor ==
    \E m \in Mounts :
        InitWith(RI(1), NoMsg, m.safe, m.scene, m.threw, MaxScenarioEvents)

CommittedWheel(sign) == view = State /\ onWheel(ScenarioCursor, sign)

NextAnchor ==
    \/ \E sign \in Signs : CommittedWheel(sign)
    \/ \E threw \in BOOLEAN : Render(threw)

SpecAnchor == InitAnchor /\ [][NextAnchor]_vars

(***************************************************************************)
(* The export pipeline: up to MaxOverlap exports in flight at once, the     *)
(* continuations of each, and the events that change what an export has    *)
(* captured (a wheel zoom, a new marker), and the render.                   *)
(***************************************************************************)
InitExport ==
    \E m \in {m \in Mounts : m.scene = "component" /\ ~m.threw} :
        InitWith(RI(1), NoMsg, m.safe, m.scene, m.threw, MaxExportEvents)

NextExport ==
    \/ \E vp \in ExportViewports :
           Len(exports) < MaxOverlap /\ addCurrentViewToDesign(vp)
    \/ \E i \in 1..MaxOverlap, ctxOk \in BOOLEAN, encodeOk \in BOOLEAN :
           imgOnLoad(i, ctxOk, encodeOk)
    \/ \E i \in 1..MaxOverlap : imgOnError(i)
    \/ \E i \in 1..MaxOverlap, ref \in HostRefs : uploadResolved(i, ref)
    \/ \E i \in 1..MaxOverlap : uploadRejected(i)
    \/ \E i \in 1..MaxOverlap : addElementResolved(i)
    \/ \E i \in 1..MaxOverlap : addElementRejected(i)
    \/ onWheel(ScenarioCursor, -1)
    \/ addMarkerAtCenter
    \/ \E threw \in BOOLEAN : Render(threw)

SpecExport == InitExport /\ [][NextExport]_vars

(***************************************************************************)
(* The vector branch over the scenes augment can be given: clicks on the   *)
(* augmented paths and circles, the handlers that change what augment      *)
(* reads (zoom, pan, markers), and the render.                             *)
(***************************************************************************)
InitAugment ==
    \E sc \in AugmentScenes, threw \in BOOLEAN :
        InitWith(RI(1), NoMsg, FALSE, sc, threw, MaxClickEvents)

NextAugment ==
    \/ \E k \in DOMAIN AttributePaths : onPathClick(k)
    \/ \E i \in 1..MaxMarkers : onMarkerClick(i)
    \/ addMarkerAtCenter
    \/ Tick
    \/ handleZoomIn
    \/ \E key \in ArrowKeys : onKeyDownArrow(key)
    \/ \E threw \in BOOLEAN : Render(threw)

SpecAugment == InitAugment /\ [][NextAugment]_vars

(***************************************************************************)
(* Properties.                                                             *)
(***************************************************************************)
\* The step is the handling of an input event of the given types.
Handled(types) == fuel' # fuel /\ ev'.type \in types

\* The world coordinate under cursor c for pan p and zoom z, on both axes.
WorldPoint(c, p, z) ==
    <<RDiv(RSub(RI(c[1]), p.x), z), RDiv(RSub(RI(c[2]), p.y), z)>>

\* C1: anchor-zoom.  Every wheel event at cursor c, with pan p and zoom z
\* before it and pan p' and zoom z' after it, keeps the world point under the
\* cursor: (c - p)/z = (c - p')/z' on both axes, whatever render the event is
\* handled from.
C1_AnchorZoom ==
    [][Handled({"wheel"}) =>
          WorldPoint(ev'.pt, pan, zoom) = WorldPoint(ev'.pt, pan', zoom')]_vars

\* C2: in every reachable state 0.2 <= zoom <= 5.0, for the hook state, the
\* rendered value and the value an export captured.
InRange(z) == RLe(ZoomMin, z) /\ RLe(z, ZoomMax)

C2_ZoomInRange ==
    /\ InRange(zoom)
    /\ InRange(view.zoom)
    /\ \A i \in 1..Len(exports) : InRange(exports[i].zoom)

\* C2 witness: the map was shown below the upper limit and a zoom request
\* that went beyond the limit has been clamped to it.
C2_Witness ==
    /\ ev.type \in {"zoomIn", "wheel"}
    /\ ev.clamped
    /\ zoom = ZoomMax
    /\ view.zoom # ZoomMax

\* C3: after N calls of addMarkerAtCenter the list has exactly N markers, the
\* i-th is named with sequence number i, and the ids are pairwise distinct.
C3_MarkerOrdering ==
    /\ Len(markers) = addCalls
    /\ \A i \in 1..Len(markers) : markers[i].name = i
    /\ \A i, j \in 1..Len(markers) : i # j => markers[i].id # markers[j].id

\* C4: a mouse-down received while the drag flag is already set leaves the
\* drag flag, the recorded drag origin (panStart) and pan unchanged.
C4_DragReentryNoOp ==
    [][(isPanning /\ Handled({"mousedown"})) =>
          (isPanning' = isPanning /\ panStart' = panStart /\ pan' = pan)]_vars

\* C5: for a drag begun by a mouse-down at `origin` handled when the pan was
\* panAtDragStart, after every mouse-move to `point` handled while the drag is
\* active, pan = point - (origin - panAtDragStart) on both axes, whatever
\* keyboard, wheel or render steps came between.
DragPan(pt, d) ==
    [x |-> RSub(RI(pt[1]), RSub(d.origin.x, d.panAtDragStart.x)),
     y |-> RSub(RI(pt[2]), RSub(d.origin.y, d.panAtDragStart.y))]

C6_NoStuckPanning ==
    [][/\ Handled({"mouseup", "mouseleave"}) => (~isPanning' /\ panStart' = <<>>)
       /\ (~drag.active /\ Handled({"mousemove"})) => pan' = pan]_vars

\* C6 witness: a drag was begun and rendered, then ended, and a mouse-move has
\* been handled from the render that still shows the drag flag set.
C6_Witness ==
    /\ ev.type = "mousemove"
    /\ ~drag.active
    /\ view.isPanning
    /\ ~isPanning

\* C7: every step that changes zoom, pan, the marker list or the selected
\* region also writes the announcement.
ViewChanged ==
    zoom' # zoom \/ pan' # pan \/ markers' # markers \/ selectedRegion' # selectedRegion

C7_EveryChangeAnnounces == [][ViewChanged => ev'.announced]_vars

\* C7 as amended: every step that changes zoom, the marker list or the selected
\* region also writes the announcement, and so does a wheel event's change of
\* pan; the arrow keys and a drag change pan and write no announcement.
C7_ChangesAnnounced ==
    [][/\ (zoom' # zoom \/ markers' # markers \/ selectedRegion' # selectedRegion)
            => (ev'.announced /\ ariaMessage' # NoMsg)
       /\ (pan' # pan /\ ~Handled(ArrowKeys \cup {"mousemove"}))
            => (Handled({"wheel"}) /\ ev'.announced)
       /\ (pan' # pan /\ Handled(ArrowKeys \cup {"mousemove"}))
            => (~ev'.announced /\ ariaMessage' = ariaMessage)]_vars

\* C7 witness: a wheel event has changed zoom and pan and has written its
\* announcement, after an arrow key had changed pan and had written none.
C7_Witness ==
    /\ ev.type = "wheel"
    /\ ev.announced
    /\ ariaMessage = WheelAnnouncement(ev.arg).msg
    /\ view.ariaMessage = NoMsg
    /\ view.pan \in {ArrowPan(Pt(0, 0), key) : key \in ArrowKeys}
    /\ zoom # view.zoom

\* C8: an export that was waiting for its image when the component was
\* unmounted discards its result: it makes no addElement call and writes no
\* announcement.
InsertCalls(i) == {j \in 1..Len(host) : host[j].call = "insert" /\ host[j].export = i}

C8_TeardownDiscards ==
    \A i \in 1..Len(exports) :
        exports[i].unmountedAt = "decoding" =>
            (InsertCalls(i) = {} /\ ~exports[i].announced)

\* C9: in the vector path, once the export has left the image decode, by
\* whichever way, its object URL has been revoked.
C9_UrlReleased ==
    \A i \in 1..Len(exports) :
        (~exports[i].safe /\ exports[i].pc # "decoding") => exports[i].url = "revoked"

\* C10: once the boundary has caught a render failure, every later step of the
\* mounted component leaves the boundary in its fallback, shows the pristine
\* tree and does not render the augmented tree again.
C10_PermanentFallback ==
    [][(boundary.mountedInstance /\ boundary.hasError /\ mounted') =>
          (/\ boundary'.hasError
           /\ displayed' = "pristine"
           /\ ~(view' # view /\ ev'.arg = 1))]_vars

UploadCalls(i) == {j \in 1..Len(host) : host[j].call = "upload" /\ host[j].export = i}

\* C11: an export whose canvas gave no 2D context is rejected, the host has
\* received neither an upload nor an addElement call from it, and the step in
\* which the context was found missing leaves zoom, pan, markers, the selected
\* region and the announcement as they were.
C11_NoContextRejects ==
    /\ [](\A i \in 1..Len(exports) :
             exports[i].err = "noContext" =>
                 /\ exports[i].pc = "rejected"
                 /\ UploadCalls(i) = {}
                 /\ InsertCalls(i) = {})
    /\ [][\A i \in 1..Len(exports) :
             (exports[i].err # "noContext" /\ exports'[i].err = "noContext") =>
                 State' = State]_vars

C11_Witness ==
    \E i \in 1..Len(exports) :
        /\ exports[i].err = "noContext"
        /\ ev.type = "imgLoad"
        /\ ev.arg = i

\* C12: each export calls addElement at most once and upload at most once;
\* an addElement call comes after the export's upload call, once the upload
\* has resolved, and carries the ref the upload resolved with; an export whose
\* decode, encode or upload failed has made no addElement call; an export
\* whose upload or addElement was rejected is rejected and has not announced.
C12_HostCallDiscipline ==
    \A i \in 1..Len(exports) :
        LET e == exports[i]
        IN  /\ Cardinality(InsertCalls(i)) <= 1
            /\ Cardinality(UploadCalls(i)) <= 1
            /\ \A j \in InsertCalls(i) :
                   /\ e.pc \in {"inserting", "done", "rejected"}
                   /\ e.err \in {"", "insert"}
                   /\ e.ref \in HostRefs
                   /\ host[j].ref = e.ref
                   /\ \E k \in UploadCalls(i) : k < j
            /\ e.err \in {"decode", "encode", "noContext", "upload"} =>
                   InsertCalls(i) = {}
            /\ e.err \in {"upload", "insert"} =>
                   (e.pc = "rejected" /\ ~e.announced)

C12_Witness ==
    \E i \in 1..Len(exports) :
        /\ exports[i].err = "insert"
        /\ Cardinality(InsertCalls(i)) = 1
        /\ exports[i].ref = "ref2"

\* The paths of the scene before augment, in document order: augment adds
\* and removes no path, so the k-th augmented path comes from the k-th.
ScenePaths == SelectSeq(Elements(SceneTree(scene)), IsPath)

\* The text of the title augment put first among a path's children.
TitleText(path) == path.children[1].children[1].text

\* The argument of the handleSelect call in a click handler.
SelectArgs(onClick) ==
    {onClick[j].arg : j \in {j \in 1..Len(onClick) : onClick[j].fn = "handleSelect"}}

\* C13 as stated: the name is the data-name value whenever the path carries a
\* data-name attribute (empty or not), otherwise the id value whenever it
\* carries an id attribute, otherwise the fallback; the title and the
\* handleSelect argument both carry that name.
C13_NameByPresence ==
    \A k \in 1..Len(RenderedPaths) :
        LET p == RenderedPaths[k]
            claimed == IF p.dataName # Absent THEN p.dataName[1]
                       ELSE IF p.id # Absent THEN p.id[1] ELSE FallbackName
        IN  TitleText(p) = claimed /\ SelectArgs(p.onClick) = {claimed}

\* C13 amended: the name is the data-name value whenever the path carries a
\* non-empty data-name, otherwise the id value whenever it carries a non-empty
\* id, otherwise the fallback; the title, the handleSelect argument and the
\* region selected by a click on the path all carry that name.
C13_NameByNonEmpty ==
    LET paths == RenderedPaths
    IN
    /\ \A k \in 1..Len(paths) :
           LET p == paths[k]
               expected == IF p.dataName \notin {Absent, Attr("")} THEN p.dataName[1]
                           ELSE IF p.id \notin {Absent, Attr("")} THEN p.id[1]
                           ELSE FallbackName
           IN  /\ TitleText(p) = expected
               /\ SelectArgs(p.onClick) = {expected}
               /\ (ev.type = "select" /\ ev.arg = k) => selectedRegion = expected
    /\ Len(paths) = Len(ScenePaths)

C13_Witness ==
    /\ ev.type = "select"
    /\ RenderedPaths[ev.arg].dataName = Attr("")
    /\ RenderedPaths[ev.arg].id = Attr("FR")
    /\ selectedRegion = "FR"

\* C17: for every scene the augmented tree holds exactly one group with the
\* transform translate(pan) scale(zoom) of the render and exactly one marker
\* layer, whose children are one circle per marker of the render, in order.
TransformGroups == SelectSeq(Elements(AugmentedWorld), LAMBDA el : el.transform # Absent)

MarkerLayers ==
    SelectSeq(Elements(AugmentedWorld),
              LAMBDA el : el.type = "g" /\ el.id = Attr("markers"))

C17_OneViewportGroup ==
    /\ Len(TransformGroups) = 1
    /\ TransformGroups[1].transform = Attr([pan |-> view.pan, zoom |-> view.zoom])
    /\ Len(MarkerLayers) = 1
    /\ Len(MarkerLayers[1].children) = Len(view.markers)
    /\ \A i \in 1..Len(view.markers) :
           /\ IsCircle(MarkerLayers[1].children[i])
           /\ MarkerLayers[1].children[i].marker = Attr(view.markers[i])

\* C18: a click on the k-th augmented path calls, in this order,
\* stopPropagation, handleSelect with the name in the path's title, and then
\* the handler the path had before augment, once, if it had one; the click
\* leaves that name selected and announced.
C18_ClickOrder ==
    [][Handled({"select"}) =>
          LET k == ev'.arg
              name == TitleText(RenderedPaths[k])
          IN  /\ ev'.calls = <<Call("stopPropagation", "", 0),
                                Call("handleSelect", name, 0)>>
                                  \o ScenePaths[k].onClick
              /\ selectedRegion' = name
              /\ ariaMessage' = Msg("selectionne", 0, name)]_vars

C18_Witness ==
    /\ ev.type = "select"
    /\ Len(ev.calls) = 3
    /\ ev.calls[3].fn = "onClickPrev"
    /\ selectedRegion = "France"

\* The number of times the held key has been pressed since the start.
Presses == MaxClampEvents - fuel

\* C14: once the zoom-in key has been pressed ConvergeWithin times in a row
\* the zoom is exactly 5.0, and it is 5.0 after every further press; once the
\* zoom-out key has been pressed that often the zoom is exactly 0.2 and stays
\* 0.2; a zoom-in request at 5.0 leaves 5.0, a zoom-out request at 0.2 leaves
\* 0.2, and neither request changes pan.
C14_ClampConvergence ==
    /\ [](Presses >= ConvergeWithin =>
             IF ariaMessage.kind = "Zoom avant" THEN zoom = ZoomMax ELSE zoom = ZoomMin)
    /\ [][/\ Handled({"zoomIn", "zoomOut"}) => pan' = pan
          /\ (Handled({"zoomIn"}) /\ zoom = ZoomMax) => zoom' = ZoomMax
          /\ (Handled({"zoomOut"}) /\ zoom = ZoomMin) => zoom' = ZoomMin]_vars

C14_Witness ==
    /\ Presses >= ConvergeWithin
    /\ zoom = ZoomMax
    /\ view.zoom = ZoomMax
    /\ ev.type = "zoomIn"
    /\ ev.clamped

\* Three wheel events have been handled and all three zoomed in: two zoom-ins
\* and one zoom-out leave the zoom at 1.1, below 1.21.
ThreeZoomInsDone == fuel = MaxScenarioEvents - 3 /\ RLe(<<121, 100>>, zoom)

\* C15: from zoom 1 and pan (0,0), after every committed wheel event at
\* (400,200) the world point under (400,200) is the one that was there at the
\* start, which is (400,200) itself; every zoom-in multiplies the zoom by 1.1;
\* and after three zoom-ins the zoom is 1.331 and the pan is
\* (400 - 1.331*400, 200 - 1.331*200) = (-132.4, -66.2).
C15_ThreeWheelSteps ==
    /\ [](WorldPoint(ScenarioCursor, pan, zoom) = <<RI(400), RI(200)>>)
    /\ [](ThreeZoomInsDone =>
             /\ zoom = <<1331, 1000>>
             /\ pan = [x |-> <<-662, 5>>, y |-> <<-331, 5>>]
             /\ pan.x = RSub(RI(400), RMul(<<1331, 1000>>, RI(400)))
             /\ pan.y = RSub(RI(200), RMul(<<1331, 1000>>, RI(200))))
    /\ [][(Handled({"wheel"}) /\ ev'.arg < 0) =>
             zoom' = RMul(zoom, WheelInFactor)]_vars

C15_Witness ==
    /\ ThreeZoomInsDone
    /\ ev.type = "wheel"
    /\ ev.pt = ScenarioCursor
    /\ zoom = <<1331, 1000>>
    /\ view.zoom = <<121, 100>>
    /\ view.pan = [x |-> RSub(RI(400), RI(484)), y |-> RSub(RI(200), RI(242))]

\* The exports whose canvas has been sized and drawn.
Drawn == {i \in 1..Len(exports) : exports[i].canvas # NoCanvas}

\* C16 as stated: the canvas of an export has exactly the width and height
\* the container had when the export started.
C16_SurfaceIsViewport ==
    \A i \in Drawn :
        /\ RI(exports[i].canvas.w) = exports[i].w
        /\ RI(exports[i].canvas.h) = exports[i].h

\* k is the integer nearest to r, halves upwards: r - 1/2 < k <= r + 1/2.
NearestInteger(k, r) ==
    /\ RLe(RI(k), RAdd(r, <<1, 2>>))
    /\ ~RLe(RI(k), RSub(r, <<1, 2>>))

\* C16 amended: in both modes and whatever zoom and pan the export captured,
\* the canvas width and height are the container's width and height at the
\* start of the export, each rounded to the nearest integer; they equal the
\* container's when those are whole numbers.
C16_SurfaceIsRoundedViewport ==
    \A i \in Drawn :
        /\ NearestInteger(exports[i].canvas.w, exports[i].w)
        /\ NearestInteger(exports[i].canvas.h, exports[i].h)
        /\ <<exports[i].w, exports[i].h>> \in ExportViewports

C16_Witness ==
    \E i \in Drawn :
        /\ exports[i].w = <<1601, 2>>
        /\ exports[i].canvas.w = 801
        /\ exports[i].canvas.h = 302
        /\ exports[i].zoom # RI(1)
        /\ exports[i].pan # Pt(0, 0)

\* C20: an export records the pan and zoom of the render it was started from
\* and never changes them; a safe-mode export draws with exactly these,
\* whatever has happened to pan, zoom and markers since; and no step of an
\* export changes zoom, pan, markers or the selected region.
C20_ExportSnapshot ==
    /\ [](\A i \in Drawn :
             exports[i].safe =>
                 /\ exports[i].canvas.tx = exports[i].pan.x
                 /\ exports[i].canvas.ty = exports[i].pan.y
                 /\ exports[i].canvas.scale = exports[i].zoom)
    /\ [][/\ Handled({"export"}) =>
                 /\ exports'[Len(exports')].pan = view.pan
                 /\ exports'[Len(exports')].zoom = view.zoom
          /\ \A i \in 1..Len(exports) :
                 /\ exports'[i].pan = exports[i].pan
                 /\ exports'[i].zoom = exports[i].zoom
          /\ exports' # exports =>
                 /\ zoom' = zoom
                 /\ pan' = pan
                 /\ markers' = markers
                 /\ selectedRegion' = selectedRegion]_vars

C20_Witness ==
    \E i \in Drawn :
        /\ exports[i].safe
        /\ ev.type = "imgLoad"
        /\ ev.arg = i
        /\ exports[i].canvas.scale = view.zoom
        /\ zoom # view.zoom
        /\ pan # view.pan

\* The steps of the exports: the start and the continuations.
ExportSteps ==
    {"export", "imgLoad", "imgError", "uploadResolved", "uploadRejected",
     "addElementResolved", "addElementRejected"}

CallsOf(kind) == {j \in 1..Len(host) : host[j].call = kind}

\* C19: an export in flight never disables the start of another one; a step
\* of one export leaves the record of every other export as it was; an export
\* that has completed has made exactly one upload call and exactly one
\* addElement call, the latter with the ref its own upload resolved with; and
\* when all exports have completed the host has received as many upload calls
\* and as many addElement calls as there are exports.
C19_OverlappingExports ==
    /\ []((CanHandle /\ Len(exports) < MaxOverlap) =>
             \A vp \in ExportViewports : ENABLED addCurrentViewToDesign(vp))
    /\ [](\A i \in 1..Len(exports) :
             exports[i].pc = "done" =>
                 /\ Cardinality(UploadCalls(i)) = 1
                 /\ Cardinality(InsertCalls(i)) = 1
                 /\ \A j \in InsertCalls(i) : host[j].ref = exports[i].ref)
    /\ []((\A i \in 1..Len(exports) : exports[i].pc = "done") =>
             /\ Cardinality(CallsOf("upload")) = Len(exports)
             /\ Cardinality(CallsOf("insert")) = Len(exports))
    /\ [][\A i \in 1..Len(exports) :
             (ev'.type \in ExportSteps /\ ev'.arg # i) => exports'[i] = exports[i]]_vars

C19_Witness ==
    /\ Len(exports) = 2
    /\ exports[1].pc = "done"
    /\ exports[2].pc = "done"
    /\ exports[1].ref # exports[2].ref
    /\ host[1].call = "upload"
    /\ host[2].call = "upload"
    /\ host[3].export = 2
    /\ host[4].export = 1

====
